---- MODULE Spec2Model ----
(***************************************************************************)
(* The scrape-and-ingest core of rss-feed-unik: the in-memory record store *)
(* (server/storage.ts), the scraper and its ingest step                    *)
(* (server/scraper.ts), the task scheduler (server/scheduler.ts) and the   *)
(* two routes that drive it (server/routes.ts).                            *)
(*                                                                         *)
(* Execution model.  The program runs on one JavaScript event loop.  An    *)
(* await on a MemStorage method resumes in a microtask, before any other   *)
(* timer callback or request handler can start, so a handler is atomic up  *)
(* to its first await on real I/O.  The only such awaits are fetch() and   *)
(* response.text() in scrapeNews: a scrape run is suspended there while    *)
(* other callbacks run.  Every action below is one such atomic stretch.    *)
(***************************************************************************)
EXTENDS Integers, Sequences, FiniteSets, TLC

VARIABLES
    storage,    \* the MemStorage singleton: articles, logs, settings, id counters
    scheduler,  \* the TaskScheduler singleton: isRunning, currentTask
    timers,     \* the node-cron tasks created so far, by creation order
    runs,       \* executions of runScrapeTask past the guard, suspended at an I/O await
    phase,      \* "constructed" | "starting" | "serving" (registerRoutes)
    now,        \* the wall clock read by new Date(), in milliseconds
    ops,        \* number of callbacks the environment has delivered
    last,       \* what the most recent callback did and returned (observation only)
    awaiting    \* calls suspended at an await on a MemStorage method, in the
                \* order in which their continuations will run (microtask queue)

vars == <<storage, scheduler, timers, runs, phase, now, ops, last, awaiting>>

(***************************************************************************)
(* Bounds of the model.                                                    *)
(***************************************************************************)
MaxOps == 2         \* callbacks delivered after start()
MaxBatch == 3       \* most candidates a page of Docs yields
MaxPrior == 52      \* largest article store drawn by InitStore
MaxLogPrior == 201  \* largest log store drawn by InitStore

(***************************************************************************)
(* Program constants.                                                      *)
(***************************************************************************)
DefaultArticleLimit == 50   \* getArticles(limit = 50)
DefaultLogLimit == 100      \* getLogs(limit = 100)
LogKeepCount == 200         \* clearOldLogs(200)
DefaultMaxArticles == 20    \* maxArticlesSetting ? ... : 20
DefaultInterval == 15       \* intervalSetting ? ... : 15
TitleLimit == 500           \* title.substring(0, 500)
ExcerptLimit == 1000        \* excerpt.substring(0, 1000)
ExcerptFallbackLimit == 200 \* .substring(0, 200)
MinTitleLength == 10        \* title.length > 10

(***************************************************************************)
(* JavaScript values.                                                      *)
(***************************************************************************)
\* A number that may be NaN.
Num(n) == [nan |-> FALSE, val |-> n]
NaN == [nan |-> TRUE, val |-> 0]

\* A string value is a tuple of one-character strings.
DigitChars == <<"0", "1", "2", "3", "4", "5", "6", "7", "8", "9">>
IsDigit(c) == \E i \in 1..10 : DigitChars[i] = c
DigitVal(c) == (CHOOSE i \in 1..10 : DigitChars[i] = c) - 1

RECURSIVE SkipSpaces(_)
SkipSpaces(s) ==
    IF s # <<>> /\ Head(s) = " " THEN SkipSpaces(Tail(s)) ELSE s

RECURSIVE DigitsValue(_, _)
DigitsValue(s, acc) ==
    IF s # <<>> /\ IsDigit(Head(s))
    THEN DigitsValue(Tail(s), 10 * acc + DigitVal(Head(s)))
    ELSE acc

\* parseInt(string): leading white space, an optional sign, then the longest
\* prefix of decimal digits; NaN when there is no digit.
parseInt(str) ==
    LET s == SkipSpaces(str)
        signed == s # <<>> /\ Head(s) \in {"-", "+"}
        body == IF signed THEN Tail(s) ELSE s
    IN  IF body = <<>> \/ ~IsDigit(Head(body)) THEN NaN
        ELSE IF signed /\ Head(s) = "-" THEN Num(0 - DigitsValue(body, 0))
        ELSE Num(DigitsValue(body, 0))

\* x * 2 and a.length > x on a number that may be NaN.
Times2(x) == IF x.nan THEN NaN ELSE Num(2 * x.val)
GreaterThan(n, x) == ~x.nan /\ n > x.val

\* Array.prototype.slice(start) and slice(0, end) on a sequence.
SliceFrom(s, start) ==
    LET from == IF start.nan THEN 0
                ELSE IF start.val < 0 THEN (IF Len(s) + start.val < 0 THEN 0 ELSE Len(s) + start.val)
                ELSE IF start.val > Len(s) THEN Len(s) ELSE start.val
    IN  SubSeq(s, from + 1, Len(s))
SliceTo(s, end) == SubSeq(s, 1, IF end > Len(s) THEN Len(s) ELSE end)

\* A text is the first len characters of the string named txt.
Text(name, n) == [txt |-> name, len |-> n]
NoText == Text("", 0)
\* substring(0, n) as it would be if it returned the whole string.
SubstringUncut(t, n) == t

Substring(t, n) == IF t.len <= n THEN t ELSE Text(t.txt, n)

(***************************************************************************)
(* MemStorage (server/storage.ts).  A Map is a sequence in insertion       *)
(* order; deleting an entry keeps the order of the others.                 *)
(***************************************************************************)
\* Array.prototype.sort with comparator b[key] - a[key]: descending, stable.
\* The place of each element in the sorted array: behind the elements with a
\* larger key and behind the earlier elements with the same key.  (SubSeq
\* turns the function into a tuple, so that each place is computed once.)
RankDesc(s, key) ==
    SubSeq([i \in 1..Len(s) |->
               1 + Cardinality({j \in 1..Len(s) : \/ s[j][key] > s[i][key]
                                                  \/ s[j][key] = s[i][key] /\ j < i})],
           1, Len(s))

Permute(s, rank) ==
    SubSeq([p \in 1..Len(s) |-> s[CHOOSE i \in 1..Len(s) : rank[i] = p]], 1, Len(s))

SortDesc(s, key) == Permute(s, RankDesc(s, key))

SelectSeqNotIn(s, ids) == SelectSeq(s, LAMBDA x : x.id \notin ids)

Ids(s) == {s[i].id : i \in 1..Len(s)}

getArticles(st, limit) == SliceTo(SortDesc(st.articles, "scrapedAt"), limit)

\* getArticleByUrl as it would be if the comparison never matched.
getArticleByUrlNoMatch(st, url) == FALSE

getArticleByUrl(st, url) == \E i \in 1..Len(st.articles) : st.articles[i].url = url

createArticle(st, insertArticle, t) ==
    [st EXCEPT
        !.articles = Append(@, [id |-> st.currentArticleId,
                                title |-> insertArticle.title,
                                excerpt |-> insertArticle.excerpt,
                                url |-> insertArticle.url,
                                category |-> insertArticle.category,
                                scrapedAt |-> t]),
        !.currentArticleId = @ + 1]

deleteOldArticles(st, keepCount) ==
    LET found == getArticles(st, DefaultArticleLimit)
    IN  IF GreaterThan(Len(found), keepCount)
        THEN [st EXCEPT !.articles = SelectSeqNotIn(@, Ids(SliceFrom(found, keepCount)))]
        ELSE st

getLogs(st, limit) == SliceTo(SortDesc(st.logs, "timestamp"), limit)

createLog(st, level, message, t) ==
    [st EXCEPT
        !.logs = Append(@, [id |-> st.currentLogId, level |-> level,
                            message |-> message, timestamp |-> t]),
        !.currentLogId = @ + 1]

clearOldLogs(st, keepCount) ==
    LET found == getLogs(st, DefaultLogLimit)
    IN  IF GreaterThan(Len(found), keepCount)
        THEN [st EXCEPT !.logs = SelectSeqNotIn(@, Ids(SliceFrom(found, keepCount)))]
        ELSE st

HasSetting(st, key) == key \in DOMAIN st.settings
getSetting(st, key) == st.settings[key]

setSetting(st, key, value) ==
    [st EXCEPT !.settings = [k \in DOMAIN st.settings \cup {key} |->
                                IF k = key THEN value ELSE st.settings[k]]]

\* Values of settings: strings as tuples of characters.
Str15 == <<"1", "5">>
Str20 == <<"2", "0">>
StrListPage == <<"l", "i", "s", "t">>

\* MemStorage's constructor, initializeDefaultSettings included.
\* formatRelativeTime(date) at the time t, both in milliseconds; the text is
\* kept as its template and the numbers it is filled with.
MsPerMinute == 60000
RelativeTime(fmt, n, m) == [fmt |-> fmt, n |-> n, m |-> m]

formatRelativeTime(date, t) ==
    LET diffMs == t - date
        diffMinutes == diffMs \div MsPerMinute
        diffHours == diffMinutes \div 60
        diffDays == diffHours \div 24
    IN  IF diffMinutes < 1 THEN RelativeTime("Just now", 0, 0)
        ELSE IF diffMinutes < 60 THEN RelativeTime("%d min ago", diffMinutes, 0)
        ELSE IF diffHours < 24 THEN RelativeTime("%dh %dm ago", diffHours, diffMinutes % 60)
        ELSE RelativeTime(IF diffDays > 1 THEN "%d days ago" ELSE "%d day ago", diffDays, 0)

\* getRssStatus() at the time t.  successRate is in tenths of a percent:
\* Math.round(rate * 10) / 10 has one decimal.
RecentLogCount == 10

getRssStatus(st, t) ==
    LET articles == getArticles(st, DefaultArticleLimit)
        logs == getLogs(st, RecentLogCount)
        errorLogs == SelectSeq(logs, LAMBDA log : log.level = "error")
        successLogs == SelectSeq(logs, LAMBDA log : log.level \in {"success", "info"})
    IN  [status |-> IF Len(errorLogs) > Len(successLogs) THEN "error" ELSE "active",
         lastUpdate |-> IF Len(articles) > 0
                        THEN formatRelativeTime(articles[1].scrapedAt, t)
                        ELSE RelativeTime("Never", 0, 0),
         articleCount |-> Len(articles),
         successRate |-> IF Len(logs) > 0
                         THEN (2000 * Len(successLogs) + Len(logs)) \div (2 * Len(logs))
                         ELSE 1000,
         isScrapingActive |-> TRUE]

NewStorage ==
    [articles |-> <<>>, logs |-> <<>>,
     settings |-> [k \in {"updateInterval", "maxArticles", "sourceUrl"} |->
                      CASE k = "updateInterval" -> Str15
                        [] k = "maxArticles" -> Str20
                        [] OTHER -> StrListPage],
     currentArticleId |-> 1, currentLogId |-> 1]

(***************************************************************************)
(* Log messages: the template text and the value interpolated into it.     *)
(***************************************************************************)
NoArg == [k |-> "none", n |-> 0, s |-> <<>>]
NumArg(x) == IF x.nan THEN [k |-> "NaN", n |-> 0, s |-> <<>>]
             ELSE [k |-> "num", n |-> x.val, s |-> <<>>]
StrArg(str) == [k |-> "str", n |-> 0, s |-> str]
Msg(text, arg) == [text |-> text, arg |-> arg]

\* error.message of the failures a run can meet.
FetchFailed == StrArg(<<"fetch failed">>)         \* fetch() rejects
BodyFailed == StrArg(<<"terminated">>)            \* response.text() rejects
HttpError(status) == [k |-> "HTTP", n |-> status, s |-> <<>>]  \* `HTTP ${status}: ...`

(***************************************************************************)
(* NewsScraper.scrapeNews: extraction (server/scraper.ts).                 *)
(*                                                                         *)
(* A document is what the cheerio queries of scrapeNews return on it:      *)
(*   matches[i]  the elements matched by articleSelectors[i], each with    *)
(*               heading   text of the first heading/title-like descendant *)
(*               linkText  text of the first <a>                           *)
(*               href      the first <a>'s href                            *)
(*               summary   text of the first excerpt-like descendant       *)
(*               rest      the element's text with the title removed       *)
(*               category  text of the first category-like descendant      *)
(*   anchors     the <a> elements whose href contains a news path          *)
(* All texts are already trimmed.  An href is                              *)
(*   [kind |-> "none"]                no <a>, or no href attribute         *)
(*   [kind |-> "empty"]               href=""                              *)
(*   [kind |-> "http", site, path]    an absolute url                      *)
(*   [kind |-> "slash", path]         "/" \o path                          *)
(*   [kind |-> "rel", path]           path, not starting with "/"          *)
(* A url is <<site, sep, path>>: the string site \o sep \o path.           *)
(***************************************************************************)
SiteRoot == "https://unik-kediri.ac.id"

Href(kind, site, path) == [kind |-> kind, site |-> site, path |-> path]
NoHref == Href("none", "", "")

\* relativeUrl.startsWith('http') ? relativeUrl
\*   : relativeUrl.startsWith('/') ? `${root}${relativeUrl}` : `${root}/${relativeUrl}`
ResolveUrl(href) ==
    CASE href.kind = "http" -> <<href.site, "/", href.path>>
      [] href.kind = "slash" -> <<SiteRoot, "/", href.path>>
      [] href.kind = "rel" -> <<SiteRoot, "/", href.path>>
      [] OTHER -> <<SiteRoot, "/", "">>

\* relativeUrl.startsWith('http') ? relativeUrl : `${root}${relativeUrl}`
ResolveFallbackUrl(href) ==
    CASE href.kind = "http" -> <<href.site, "/", href.path>>
      [] href.kind = "slash" -> <<SiteRoot, "/", href.path>>
      [] href.kind = "rel" -> <<SiteRoot, "", href.path>>
      [] OTHER -> <<SiteRoot, "", "">>

\* if (... && url && ...): a string is truthy when it is not empty.
UrlNonEmpty(url) == url[1] # "" \/ url[2] # "" \/ url[3] # ""

ElementTitle(e) == IF e.heading.len > 0 THEN e.heading ELSE e.linkText
ElementExcerpt(e) ==
    IF e.summary.len > 0 THEN e.summary ELSE Substring(e.rest, ExcerptFallbackLimit)
ElementCategory(e) == IF e.category # "" THEN e.category ELSE "Umum"

\* The structural filter as it would be without the test of the length.
AcceptElementAnyLength(title, url) == title.len > 0 /\ UrlNonEmpty(url)

AcceptElement(title, url) ==
    title.len > 0 /\ UrlNonEmpty(url) /\ title.len > MinTitleLength

AcceptAnchor(title) == title.len > 0 /\ title.len > MinTitleLength

ElementCandidate(e) ==
    [title |-> Substring(ElementTitle(e), TitleLimit),
     excerpt |-> Substring(ElementExcerpt(e), ExcerptLimit),
     url |-> ResolveUrl(e.href),
     category |-> ElementCategory(e)]

AnchorCandidate(a) ==
    [title |-> Substring(a.text, TitleLimit),
     excerpt |-> Text("No excerpt available", 20),
     url |-> ResolveFallbackUrl(a.href),
     category |-> "Berita"]

RECURSIVE StructuralCandidates(_)
StructuralCandidates(elements) ==
    IF elements = <<>> THEN <<>>
    ELSE (IF AcceptElement(ElementTitle(Head(elements)), ResolveUrl(Head(elements).href))
          THEN <<ElementCandidate(Head(elements))>> ELSE <<>>)
         \o StructuralCandidates(Tail(elements))

RECURSIVE FallbackCandidates(_)
FallbackCandidates(anchors) ==
    IF anchors = <<>> THEN <<>>
    ELSE (IF AcceptAnchor(Head(anchors).text)
          THEN <<AnchorCandidate(Head(anchors))>> ELSE <<>>)
         \o FallbackCandidates(Tail(anchors))

\* The index of the first selector that matches an element, 0 when none does.
FirstMatching(doc) ==
    IF \E i \in 1..Len(doc.matches) : Len(doc.matches[i]) > 0
    THEN CHOOSE i \in 1..Len(doc.matches) :
            /\ Len(doc.matches[i]) > 0
            /\ \A j \in 1..(i - 1) : Len(doc.matches[j]) = 0
    ELSE 0

\* The extraction as it would be if the fallback ran whenever the structural
\* path produced no candidate.
ExtractFallbackWhenEmpty(doc) ==
    IF FirstMatching(doc) # 0 /\ StructuralCandidates(doc.matches[FirstMatching(doc)]) # <<>>
    THEN StructuralCandidates(doc.matches[FirstMatching(doc)])
    ELSE FallbackCandidates(doc.anchors)

Extract(doc) ==
    IF FirstMatching(doc) # 0
    THEN StructuralCandidates(doc.matches[FirstMatching(doc)])
    ELSE FallbackCandidates(doc.anchors)

\* The scraper singleton, `new NewsScraper()`: its sourceUrl field holds the
\* constructor's default, the listing page, and is never assigned again.
NewsScraperSourceUrl == StrListPage

(***************************************************************************)
(* NewsScraper.saveArticles.  ticks: the candidates before whose insert    *)
(* the millisecond clock advances.                                         *)
(***************************************************************************)
RECURSIVE SaveLoop(_, _, _, _, _)
SaveLoop(st, batch, i, t, ticks) ==
    IF i > Len(batch) THEN [storage |-> st, now |-> t, newArticlesCount |-> 0]
    ELSE LET t1 == IF i \in ticks THEN t + 1 ELSE t
             existing == getArticleByUrl(st, batch[i].url)
             st1 == IF ~existing THEN createArticle(st, batch[i], t1) ELSE st
             r == SaveLoop(st1, batch, i + 1, t1, ticks)
         IN  [r EXCEPT !.newArticlesCount = @ + (IF ~existing THEN 1 ELSE 0)]

MaxArticlesOf(st) ==
    IF HasSetting(st, "maxArticles") THEN parseInt(getSetting(st, "maxArticles"))
    ELSE Num(DefaultMaxArticles)

saveArticlesAlwaysTrims(st, batch, t, ticks) ==
    LET r == SaveLoop(st, batch, 1, t, ticks)
        logged ==
            IF r.newArticlesCount > 0
            THEN createLog(r.storage, "info",
                           Msg("Added %d new articles to database", NumArg(Num(r.newArticlesCount))),
                           r.now)
            ELSE r.storage
        trimmed == deleteOldArticles(logged, Times2(MaxArticlesOf(r.storage)))
    IN  [storage |-> clearOldLogs(trimmed, Num(LogKeepCount)), now |-> r.now]

saveArticles(st, batch, t, ticks) ==
    LET r == SaveLoop(st, batch, 1, t, ticks)
        trimmed ==
            IF r.newArticlesCount > 0
            THEN deleteOldArticles(
                    createLog(r.storage, "info",
                              Msg("Added %d new articles to database", NumArg(Num(r.newArticlesCount))),
                              r.now),
                    Times2(MaxArticlesOf(r.storage)))
            ELSE r.storage
    IN  [storage |-> clearOldLogs(trimmed, Num(LogKeepCount)), now |-> r.now]

(***************************************************************************)
(* TaskScheduler (server/scheduler.ts).  The operators below act on the    *)
(* world w = [storage, scheduler, timers, now, threw]: the three objects a *)
(* callback reads and writes, the clock, and whether the call threw.       *)
(***************************************************************************)
NewScheduler == [isRunning |-> FALSE, currentTask |-> 0]   \* 0: null

World == [storage |-> storage, scheduler |-> scheduler, timers |-> timers,
          now |-> now, threw |-> FALSE]

\* The callback runs at a later millisecond than the previous one.
Tick(w) == [w EXCEPT !.now = @ + 1]

Log(w, level, text, arg) ==
    [w EXCEPT !.storage = createLog(@, level, Msg(text, arg), w.now)]

\* node-cron validates the expression `*/${intervalMinutes} * * * *`.
CronValid(interval) == ~interval.nan /\ interval.val >= 1 /\ interval.val <= 59

\* intervalSetting ? parseInt(intervalSetting.value) : 15
IntervalOf(st) ==
    IF HasSetting(st, "updateInterval") THEN parseInt(getSetting(st, "updateInterval"))
    ELSE Num(DefaultInterval)

\* ScheduledTask.stop()
StopTimer(tm, task) == IF task # 0 THEN [tm EXCEPT ![task].active = FALSE] ELSE tm

\* cronThrows: whether cron.schedule rejects an expression that is not valid
\* by throwing (otherwise it returns a task for it).
\* scheduleTask, lines 29-31: the stretch before `await storage.getSetting`.
StopExisting(w) == [w EXCEPT !.timers = StopTimer(@, w.scheduler.currentTask)]

\* scheduleTask, lines 34-49: the stretch after `await storage.getSetting`,
\* with the interval parsed from the setting that call returned.
InstallTimer(w, intervalMinutes, cronThrows) ==
    IF ~CronValid(intervalMinutes) /\ cronThrows
    THEN [w EXCEPT !.threw = TRUE]
    ELSE Log([w EXCEPT !.timers = Append(@, [interval |-> intervalMinutes,
                                              active |-> TRUE]),
                       !.scheduler.currentTask = Len(w.timers) + 1],
             "info", "Scheduled scraping every %d minutes", NumArg(intervalMinutes))

scheduleTask(w, cronThrows) ==
    InstallTimer(StopExisting(w), IntervalOf(w.storage), cronThrows)

\* updateSchedule() as it would be if rescheduling also reset the running flag.
updateScheduleResetsRun(w, cronThrows) ==
    [scheduleTask(w, cronThrows) EXCEPT !.scheduler.isRunning = FALSE]

updateSchedule(w, cronThrows) == scheduleTask(w, cronThrows)

\* stop() as it would be if it left the handle on the stopped task.
stopKeepsHandle(w) ==
    [w EXCEPT !.timers = StopTimer(@, w.scheduler.currentTask)]

stop(w) ==
    IF w.scheduler.currentTask # 0
    THEN [w EXCEPT !.timers = StopTimer(@, w.scheduler.currentTask),
                   !.scheduler.currentTask = 0]
    ELSE w

\* The guard as it would be without the test of line 53.
AlreadyRunningIgnored(sch) == FALSE

\* runScrapeTask, line 53: if (this.isRunning)
AlreadyRunning(sch) == sch.isRunning

\* The skipped trigger as it would be without its createLog.
SkipRunSilently(w) == w

\* runScrapeTask, lines 54-58: the skipped trigger.
SkipRun(w) == Log(w, "warn", "Scrape task already running, skipping...", NoArg)

\* runScrapeTask and scrapeNews up to the fetch.
EnterRun(w) ==
    Log(Log([w EXCEPT !.scheduler.isRunning = TRUE],
            "info", "Starting news scraping task...", NoArg),
        "info", "Starting scheduled scrape...", NoArg)

\* The end of runScrapeTask as it would be without the finally block.
FinallyOmitted(sch) == sch

\* runScrapeTask, lines 83-85: finally { this.isRunning = false }
Finally(sch) == [sch EXCEPT !.isRunning = FALSE]

\* The test of the response as it would be without line 25.
ResponseOkUnchecked(status) == TRUE

\* scrapeNews, line 25: response.ok
ResponseOk(status) == status >= 200 /\ status <= 299

\* The failure path as it would be if a failed run also cancelled the timer.
FailRunStopsTimer(w, err) ==
    LET logged == Log(Log(w, "error", "Scraping failed: %s", err),
                      "error", "Scraping task failed: %s", err)
    IN  stop([logged EXCEPT !.scheduler.isRunning = FALSE])

\* A failure thrown inside scrapeNews: its catch logs and rethrows, the catch
\* of runScrapeTask logs, and finally clears the flag.
FailRun(w, err) ==
    LET logged == Log(Log(w, "error", "Scraping failed: %s", err),
                      "error", "Scraping task failed: %s", err)
    IN  [logged EXCEPT !.scheduler = Finally(@)]

\* scrapeNews from the parsed body on, saveArticles, and the end of runScrapeTask.
SucceedRun(w, doc, ticks) ==
    LET found == Extract(doc)
        warned == IF Len(found) = 0
                  THEN Log(w, "warn", "No articles found - website structure may have changed", NoArg)
                  ELSE w
        scraped == Log(warned, "success", "Successfully scraped %d articles", NumArg(Num(Len(found))))
        saved == saveArticles(scraped.storage, found, scraped.now, ticks)
        done == Log([scraped EXCEPT !.storage = saved.storage, !.now = saved.now],
                    "success", "Scraping completed successfully. Found %d articles",
                    NumArg(Num(Len(found))))
    IN  [done EXCEPT !.scheduler = Finally(@)]

\* The end of start() as it would be if "started" were logged before the
\* timer is installed.
FinishStartLogsFirst(w) ==
    scheduleTask(Log(w, "success", "RSS Feed Scheduler started successfully", NoArg), TRUE)

\* start(), lines 18-24: what follows the initial scrape.
FinishStart(w) ==
    LET scheduled == scheduleTask(w, TRUE)
    IN  IF scheduled.threw THEN scheduled
        ELSE Log(scheduled, "success", "RSS Feed Scheduler started successfully", NoArg)

\* What the caller of runScrapeTask does when it returns.
AfterRun(w, origin) == IF origin = "start" THEN FinishStart(w) ELSE w

(***************************************************************************)
(* The environment's inputs: the pages the source serves, the responses,   *)
(* and the settings a client posts.                                        *)
(***************************************************************************)
articleSelectors ==
    <<".news-item", ".article-item", ".post-item", ".content-item",
      "article", ".card", "[class*=news]", "[class*=article]">>

\* A page on which only articleSelectors[i] matches, and matches `elements`.
Matching(i, elements) ==
    [j \in 1..Len(articleSelectors) |-> IF j = i THEN elements ELSE <<>>]

Paragraph == Text("paragraph", 40)
News(title, href) ==
    [heading |-> title, linkText |-> title, href |-> href,
     summary |-> NoText, rest |-> Paragraph, category |-> ""]
Anchor(text, href) == [text |-> text, href |-> href]

TitleA == Text("Title A", 25)
TitleB == Text("Title B", 11)
TitleC == Text("Title C", 30)
TitleShort == Text("Title D", 10)
TitleLong == Text("Title L", 600)
SummaryLong == Text("summary", 1200)

\* Two elements of the first selector whose hrefs resolve to one url; the
\* sixth selector matches another element, and an anchor has a news path.
DocDup ==
    [matches |-> [Matching(1, <<News(TitleA, Href("slash", "", "berita/1")),
                                News(TitleA, Href("rel", "", "berita/1"))>>)
                     EXCEPT ![6] = <<News(TitleB, Href("slash", "", "berita/6"))>>],
     anchors |-> <<Anchor(TitleC, Href("slash", "", "berita/5"))>>]
\* Four elements of the fifth selector: one with a title of ten characters,
\* one with a title and a summary beyond the limits, one with a heading but
\* no link.
DocThree ==
    [matches |-> Matching(5, <<News(TitleA, Href("slash", "", "berita/1")),
                               News(TitleShort, Href("slash", "", "berita/4")),
                               [News(TitleLong, Href("http", SiteRoot, "berita/2"))
                                   EXCEPT !.summary = SummaryLong],
                               [News(TitleB, NoHref) EXCEPT !.linkText = NoText]>>),
     anchors |-> <<Anchor(TitleC, Href("slash", "", "berita/5"))>>]
\* No selector matches: the anchors are used.
DocFallback ==
    [matches |-> Matching(0, <<>>),
     anchors |-> <<Anchor(TitleLong, Href("slash", "", "berita/5")),
                   Anchor(TitleShort, Href("slash", "", "berita/4"))>>]
\* The second selector matches one element, which the filter rejects; the
\* fifth selector matches an element it would accept, and so would an anchor.
DocRejected ==
    [matches |-> [Matching(2, <<News(TitleShort, Href("slash", "", "berita/4"))>>)
                     EXCEPT ![5] = <<News(TitleA, Href("slash", "", "berita/1"))>>],
     anchors |-> <<Anchor(TitleC, Href("slash", "", "berita/5"))>>]
\* No selector matches and no anchor has a news path.
DocEmpty == [matches |-> Matching(0, <<>>), anchors |-> <<>>]

Docs == {DocDup, DocThree, DocFallback, DocRejected, DocEmpty}

\* The clock either stands still during an ingest or advances before every insert.
TickPatterns(batch) == {{}, 1..Len(batch)}

Statuses == {200, 404}

Str30 == <<"3", "0">>
Str1 == <<"1">>
StrAbc == <<"a", "b", "c">>
StrMirror == <<"m", "i", "r", "r", "o", "r">>
SettingInputs ==
    {<<"updateInterval", Str30>>, <<"updateInterval", StrAbc>>,
     <<"maxArticles", Str1>>, <<"sourceUrl", StrMirror>>}

(***************************************************************************)
(* Observation of the last callback.                                       *)
(***************************************************************************)
\* The answer of a status query, before any was made.
NoStatus ==
    [status |-> "", lastUpdate |-> RelativeTime("", 0, 0), articleCount |-> 0,
     successRate |-> 0, isScrapingActive |-> FALSE]

LastNone ==
    [op |-> "none", origin |-> "", run |-> 0, status |-> 0, err |-> NoArg,
     key |-> "", value |-> <<>>, response |-> 0, prevTask |-> 0,
     articlesAtEntry |-> <<>>, logsAtEntry |-> 0,
     keepCount |-> 0, batch |-> <<>>, articlesAfterFirst |-> <<>>,
     doc |-> DocEmpty, rssStatus |-> NoStatus]

NewRun(origin, w) ==
    [id |-> w.now, origin |-> origin, at |-> "fetch", status |-> 0,
     articlesAtEntry |-> storage.articles, logsAtEntry |-> Len(storage.logs),
     fetched |-> NewsScraperSourceUrl,
     sourceUrlSetting |-> getSetting(w.storage, "sourceUrl")]

ExitObs(r, op, status, err, doc) ==
    [LastNone EXCEPT !.op = op, !.origin = r.origin, !.run = r.id,
                     !.status = status, !.err = err,
                     !.doc = doc,
                     !.batch = IF op = "succeeded" THEN Extract(doc) ELSE <<>>,
                     !.response = IF r.origin = "manual" THEN 200 ELSE 0,
                     !.articlesAtEntry = r.articlesAtEntry,
                     !.logsAtEntry = r.logsAtEntry]

Commit(w) ==
    /\ storage' = w.storage
    /\ scheduler' = w.scheduler
    /\ timers' = w.timers
    /\ now' = w.now

(***************************************************************************)
(* The callbacks.                                                          *)
(***************************************************************************)
Init ==
    /\ storage = NewStorage
    /\ scheduler = NewScheduler
    /\ timers = <<>>
    /\ runs = {}
    /\ phase = "constructed"
    /\ now = 0
    /\ ops = 0
    /\ last = LastNone
    /\ awaiting = <<>>

\* A call of runScrapeTask by `origin`, up to its return or its first I/O await.
Trigger(origin, w) ==
    IF AlreadyRunning(scheduler)
    THEN /\ Commit(SkipRun(w))
         /\ runs' = runs
         /\ last' = [LastNone EXCEPT !.op = "skip", !.origin = origin,
                                     !.response = IF origin = "manual" THEN 200 ELSE 0]
    ELSE /\ Commit(EnterRun(w))
         /\ runs' = runs \cup {NewRun(origin, w)}
         /\ last' = [LastNone EXCEPT !.op = "enter", !.origin = origin, !.run = w.now]

\* registerRoutes: await scheduler.start(), up to the fetch of the initial scrape.
Start ==
    /\ phase = "constructed"
    /\ Trigger("start", Log(Tick(World), "info", "RSS Feed Scheduler starting...", NoArg))
    /\ phase' = "starting"
    /\ ops' = ops
    /\ awaiting' = awaiting

\* The callback of an active node-cron task.
TimerFire(task) ==
    /\ timers[task].active
    /\ ops < MaxOps
    /\ Trigger("timer", Tick(World))
    /\ ops' = ops + 1
    /\ phase' = phase
    /\ awaiting' = awaiting

\* POST /api/refresh
ManualRefresh ==
    /\ phase = "serving"
    /\ ops < MaxOps
    /\ Trigger("manual", Tick(World))
    /\ ops' = ops + 1
    /\ phase' = phase
    /\ awaiting' = awaiting

\* The end of a run, and of start() when the run is the initial scrape.
EndRun(r, w, op, status, err, doc) ==
    LET after == AfterRun(w, r.origin)
    IN  /\ Commit(after)
        /\ runs' = runs \ {r}
        /\ phase' = IF r.origin = "start"
                    THEN (IF after.threw THEN "failed" ELSE "serving")
                    ELSE phase
        /\ last' = ExitObs(r, op, status, err, doc)
        /\ ops' = ops
        /\ awaiting' = awaiting

\* fetch() rejects: a transport failure.
FetchRejects(r) ==
    /\ r.at = "fetch"
    /\ EndRun(r, FailRun(Tick(World), FetchFailed), "failed", 0, FetchFailed, DocEmpty)

\* fetch() resolves with a response of the given status.
FetchResponds(r, status) ==
    /\ r.at = "fetch"
    /\ IF ResponseOk(status)
       THEN /\ runs' = (runs \ {r}) \cup {[r EXCEPT !.at = "text", !.status = status]}
            /\ now' = now + 1
            /\ last' = [LastNone EXCEPT !.op = "response", !.origin = r.origin,
                                        !.run = r.id, !.status = status]
            /\ UNCHANGED <<storage, scheduler, timers, phase, ops, awaiting>>
       ELSE EndRun(r, FailRun(Tick(World), HttpError(status)), "failed", status,
                   HttpError(status), DocEmpty)

\* response.text() resolves with the page `doc`.
TextResolves(r, doc, ticks) ==
    /\ r.at = "text"
    /\ ticks \in TickPatterns(Extract(doc))
    /\ EndRun(r, SucceedRun(Tick(World), doc, ticks), "succeeded", r.status, NoArg, doc)

\* response.text() rejects: the connection broke while the body was read.
TextRejects(r) ==
    /\ r.at = "text"
    /\ EndRun(r, FailRun(Tick(World), BodyFailed), "failed", r.status, BodyFailed, DocEmpty)

\* POST /api/settings with a body that passes insertSettingSchema.
PostSettings(key, value, cronThrows) ==
    /\ phase = "serving"
    /\ ops < MaxOps
    /\ LET set == [Tick(World) EXCEPT !.storage = setSetting(@, key, value)]
           scheduled == updateSchedule(set, cronThrows)
           obs == [LastNone EXCEPT !.op = "settings", !.key = key, !.value = value,
                                   !.prevTask = scheduler.currentTask]
       IN  IF key = "updateInterval"
           THEN IF scheduled.threw
                THEN Commit(scheduled) /\ last' = [obs EXCEPT !.response = 500]
                ELSE /\ Commit(Log(scheduled, "info", "Update interval changed to %s minutes",
                                   StrArg(value)))
                     /\ last' = [obs EXCEPT !.response = 200]
           ELSE Commit(set) /\ last' = [obs EXCEPT !.response = 200]
    /\ ops' = ops + 1
    /\ UNCHANGED <<runs, phase, awaiting>>

\* Every suspended call has now seen stop() return.
SeenStop(calls) == [i \in 1..Len(calls) |-> [calls[i] EXCEPT !.stopped = TRUE]]

\* scheduler.stop(): a synchronous method of the exported singleton, callable
\* whether or not start() has run.
Stop ==
    /\ ops < MaxOps
    /\ Commit(stop(Tick(World)))
    /\ last' = [LastNone EXCEPT !.op = "stop", !.prevTask = scheduler.currentTask]
    /\ ops' = ops + 1
    /\ awaiting' = SeenStop(awaiting)
    /\ UNCHANGED <<runs, phase>>

Next ==
    \/ Start
    \/ \E task \in 1..Len(timers) : TimerFire(task)
    \/ ManualRefresh
    \/ \E r \in runs : FetchRejects(r)
    \/ \E r \in runs, status \in Statuses : FetchResponds(r, status)
    \/ \E r \in runs, doc \in Docs, ticks \in SUBSET (1..MaxBatch) : TextResolves(r, doc, ticks)
    \/ \E r \in runs : TextRejects(r)
    \/ \E input \in SettingInputs, cronThrows \in BOOLEAN :
          PostSettings(input[1], input[2], cronThrows)
    \/ Stop

Spec == Init /\ [][Next]_vars

\* The I/O a suspended run awaits completes: fetch() resolves or rejects, and
\* so does response.text().
RunStep ==
    \E r \in runs :
        \/ FetchRejects(r)
        \/ TextRejects(r)
        \/ \E status \in Statuses : FetchResponds(r, status)
        \/ \E doc \in Docs, ticks \in SUBSET (1..MaxBatch) : TextResolves(r, doc, ticks)

\* The program under the assumption that every fetch eventually returns or fails.
SpecLive == Init /\ [][Next]_vars /\ WF_vars(RunStep)

(***************************************************************************)
(* The scheduler with its awaits on MemStorage as suspension points.       *)
(* An await on a MemStorage method suspends the caller until the microtask *)
(* queue reaches its continuation; code that runs in between (a caller     *)
(* that does not wait for the previous call to settle, a second request    *)
(* dispatched in the same turn of the event loop) finds the scheduler as   *)
(* the suspended call left it.  Below, the handler of POST /api/settings   *)
(* and the tail of start() are cut at these awaits: `awaiting` holds the   *)
(* suspended calls, continuations run first-in first-out, and timer        *)
(* callbacks and I/O completions run only when the queue is empty.         *)
(***************************************************************************)
Call(kind, at, key, value) ==
    [kind |-> kind, at |-> at, key |-> key, value |-> value,
     interval |-> Num(0), stopped |-> FALSE]

\* The ways a run suspended at r.at can end, each with the world it leaves.
Endings(r) ==
    IF r.at = "fetch"
    THEN {[w |-> FailRun(Tick(World), FetchFailed), op |-> "failed", status |-> 0,
           err |-> FetchFailed, doc |-> DocEmpty]}
         \cup {[w |-> FailRun(Tick(World), HttpError(status)), op |-> "failed",
                status |-> status, err |-> HttpError(status), doc |-> DocEmpty] :
                   status \in {x \in Statuses : ~ResponseOk(x)}}
    ELSE {[w |-> FailRun(Tick(World), BodyFailed), op |-> "failed", status |-> r.status,
           err |-> BodyFailed, doc |-> DocEmpty]}
         \cup UNION {{[w |-> SucceedRun(Tick(World), doc, ticks), op |-> "succeeded",
                       status |-> r.status, err |-> NoArg, doc |-> doc] :
                          ticks \in TickPatterns(Extract(doc))} : doc \in Docs}

\* start(), lines 16-19: the initial scrape ends and start() calls
\* scheduleTask(), which runs up to `await storage.getSetting`.
InitialScrapeEnds(r) ==
    /\ r.origin = "start"
    /\ \E e \in Endings(r) :
          /\ Commit(StopExisting(e.w))
          /\ awaiting' = Append(awaiting,
                                [Call("start", "getSetting", "", <<>>)
                                    EXCEPT !.interval = IntervalOf(e.w.storage)])
          /\ last' = ExitObs(r, e.op, e.status, e.err, e.doc)
    /\ runs' = runs \ {r}
    /\ UNCHANGED <<phase, ops>>

\* POST /api/settings, lines 82-88: up to `await storage.setSetting`, whose
\* body has stored the value when it returns its promise.
BeginPostSettings(key, value) ==
    /\ phase = "serving"
    /\ ops < MaxOps
    /\ Commit([Tick(World) EXCEPT !.storage = setSetting(@, key, value)])
    /\ awaiting' = Append(awaiting, Call("settings", "setSetting", key, value))
    /\ last' = [LastNone EXCEPT !.op = "begin", !.key = key, !.value = value,
                                !.prevTask = scheduler.currentTask]
    /\ ops' = ops + 1
    /\ UNCHANGED <<runs, phase>>

\* The continuation at the head of the microtask queue runs up to its next
\* await, or to the end of its call.
Resume(cronThrows) ==
    /\ awaiting # <<>>
    /\ LET c == Head(awaiting)
           rest == Tail(awaiting)
           obs == [LastNone EXCEPT !.op = "resume", !.origin = c.kind, !.key = c.key,
                                   !.value = c.value, !.prevTask = scheduler.currentTask]
           installed == InstallTimer(World, c.interval, cronThrows)
       IN  CASE c.at = "setSetting" /\ c.key = "updateInterval" ->
                    \* routes.ts line 92, scheduler.ts lines 88-89 and 29-33
                    /\ Commit(StopExisting(World))
                    /\ awaiting' = Append(rest, [c EXCEPT !.at = "getSetting",
                                                          !.interval = IntervalOf(storage)])
                    /\ last' = obs
                    /\ phase' = phase
             [] c.at = "setSetting" /\ c.key # "updateInterval" ->
                    \* routes.ts line 99
                    /\ Commit(World)
                    /\ awaiting' = rest
                    /\ last' = [obs EXCEPT !.response = 200]
                    /\ phase' = phase
             [] c.at = "getSetting" ->
                    \* scheduler.ts lines 34-49
                    /\ Commit(installed)
                    /\ IF installed.threw
                       THEN /\ awaiting' = rest
                            /\ last' = [obs EXCEPT !.response =
                                            IF c.kind = "settings" THEN 500 ELSE 0]
                            /\ phase' = IF c.kind = "start" THEN "failed" ELSE phase
                       ELSE /\ awaiting' = Append(rest, [c EXCEPT !.at = "createLog"])
                            /\ last' = obs
                            /\ phase' = phase
             [] OTHER ->
                    \* scheduler.ts lines 21-24, or routes.ts lines 93-99
                    /\ Commit(IF c.kind = "start"
                              THEN Log(World, "success",
                                       "RSS Feed Scheduler started successfully", NoArg)
                              ELSE Log(World, "info",
                                       "Update interval changed to %s minutes",
                                       StrArg(c.value)))
                    /\ awaiting' = rest
                    /\ last' = [obs EXCEPT !.response =
                                    IF c.kind = "settings" THEN 200 ELSE 0]
                    /\ phase' = IF c.kind = "start" THEN "serving" ELSE phase
    /\ UNCHANGED <<runs, ops>>

NextAwait ==
    \/ Start
    \/ awaiting = <<>> /\ \E task \in 1..Len(timers) : TimerFire(task)
    \/ awaiting = <<>> /\ ManualRefresh
    \/ awaiting = <<>> /\ \E r \in runs : r.origin # "start" /\ FetchRejects(r)
    \/ awaiting = <<>> /\ \E r \in runs, status \in Statuses :
          (r.origin # "start" \/ ResponseOk(status)) /\ FetchResponds(r, status)
    \/ awaiting = <<>> /\ \E r \in runs, doc \in Docs, ticks \in SUBSET (1..MaxBatch) :
          r.origin # "start" /\ TextResolves(r, doc, ticks)
    \/ awaiting = <<>> /\ \E r \in runs : r.origin # "start" /\ TextRejects(r)
    \/ awaiting = <<>> /\ \E r \in runs : InitialScrapeEnds(r)
    \/ \E input \in SettingInputs : BeginPostSettings(input[1], input[2])
    \/ \E cronThrows \in BOOLEAN : Resume(cronThrows)
    \/ Stop

SpecAwait == Init /\ [][NextAwait]_vars

(***************************************************************************)
(* The store on its own: MemStorage.deleteOldArticles and                  *)
(* NewsScraper.saveArticles applied to stores of every size up to          *)
(* MaxPrior articles and MaxLogPrior log entries.                          *)
(***************************************************************************)
StoreUrl(i) == <<SiteRoot, "/", ToString(i)>>

Candidate(i) ==
    [title |-> TitleA, excerpt |-> Paragraph, url |-> StoreUrl(i), category |-> "Umum"]

\* n articles inserted one after the other; tied: two inserts per millisecond.
StoredArticles(n, tied) ==
    [i \in 1..n |-> [id |-> i, title |-> TitleA, excerpt |-> Paragraph,
                     url |-> StoreUrl(i), category |-> "Umum",
                     scrapedAt |-> IF tied THEN (i + 1) \div 2 ELSE i]]

StoredLogs(m) ==
    [i \in 1..m |-> [id |-> i, level |-> "info",
                     message |-> Msg("RSS feed generated successfully", NoArg),
                     timestamp |-> i]]

StoreOf(n, tied, m, maxArticles) ==
    [articles |-> StoredArticles(n, tied), logs |-> StoredLogs(m),
     settings |-> [NewStorage.settings EXCEPT !["maxArticles"] = maxArticles],
     currentArticleId |-> n + 1, currentLogId |-> m + 1]

\* Urls 1..MaxPrior may be stored already; the urls from FirstNew on never are.
FirstNew == MaxPrior + 1
Batches ==
    {<<>>,
     <<Candidate(FirstNew)>>,
     <<Candidate(5), Candidate(FirstNew)>>,
     <<Candidate(FirstNew), Candidate(FirstNew)>>,
     <<Candidate(FirstNew), Candidate(FirstNew + 1), Candidate(FirstNew + 2)>>}

KeepCounts == {0, 1, 2, 40, 50, 51}
LogPriors(limit) == {0} \cup {m \in 1..limit : m + 4 >= limit}
MaxArticlesInputs == {Str20, Str1}

InitStore ==
    \E n \in 0..MaxPrior, tied \in BOOLEAN, m \in LogPriors(MaxLogPrior),
       maxArticles \in MaxArticlesInputs :
        /\ n = 0 \/ m = 0
        /\ storage = StoreOf(n, tied, m, maxArticles)
        /\ scheduler = NewScheduler
        /\ timers = <<>>
        /\ runs = {}
        /\ phase = "store"
        /\ now = IF n > m THEN n ELSE m
        /\ ops = 0
        /\ last = LastNone
        /\ awaiting = <<>>

\* storage.deleteOldArticles(keepCount)
StoreTrim(keepCount) ==
    /\ phase = "store"
    /\ storage' = deleteOldArticles(storage, Num(keepCount))
    /\ phase' = "trimmed"
    /\ last' = [LastNone EXCEPT !.op = "trim", !.keepCount = keepCount,
                                !.articlesAtEntry = storage.articles]
    /\ UNCHANGED <<scheduler, timers, runs, now, ops, awaiting>>

\* scraper.saveArticles(batch)
StoreIngest(batch, ticks) ==
    /\ phase = "store"
    /\ ticks \in TickPatterns(batch)
    /\ LET saved == saveArticles(storage, batch, now + 1, ticks)
       IN  storage' = saved.storage /\ now' = saved.now
    /\ phase' = "ingested"
    /\ last' = [LastNone EXCEPT !.op = "ingest", !.batch = batch,
                                !.articlesAtEntry = storage.articles,
                                !.logsAtEntry = Len(storage.logs)]
    /\ UNCHANGED <<scheduler, timers, runs, ops, awaiting>>

\* scraper.saveArticles(batch) once more, with the batch just ingested.
StoreIngestAgain(ticks) ==
    /\ phase = "ingested"
    /\ ticks \in TickPatterns(last.batch)
    /\ LET saved == saveArticles(storage, last.batch, now + 1, ticks)
       IN  storage' = saved.storage /\ now' = saved.now
    /\ phase' = "reingested"
    /\ last' = [last EXCEPT !.op = "reingest", !.articlesAfterFirst = storage.articles]
    /\ UNCHANGED <<scheduler, timers, runs, ops, awaiting>>

\* GET /api/status: storage.getRssStatus(), before or after a trim or an ingest.
StoreStatus ==
    /\ last.op # "status"
    /\ last' = [last EXCEPT !.op = "status", !.rssStatus = getRssStatus(storage, now)]
    /\ UNCHANGED <<storage, scheduler, timers, runs, phase, now, ops, awaiting>>

NextStore ==
    \/ \E keepCount \in KeepCounts : StoreTrim(keepCount)
    \/ \E batch \in Batches, ticks \in SUBSET (1..MaxBatch) : StoreIngest(batch, ticks)
    \/ \E ticks \in SUBSET (1..MaxBatch) : StoreIngestAgain(ticks)
    \/ StoreStatus

SpecStore == InitStore /\ [][NextStore]_vars

(***************************************************************************)
(* Properties.                                                             *)
(***************************************************************************)
Articles == storage.articles
Logs == storage.logs

\* The run r ends in this step: no execution with its id is suspended afterwards.
Exits(r) == r \in runs /\ \A q \in runs' : q.id # r.id

\* The entries appended to the log by this step.
Appended == SubSeq(storage'.logs, Len(Logs) + 1, Len(storage'.logs))

\* This step is a call of runScrapeTask by a timer or by POST /api/refresh.
TriggerStep == ops' = ops + 1 /\ last'.op \in {"skip", "enter"}

\* C1: in every reachable state no two stored articles have the same url, also
\* after a batch that holds one url twice and after a trim.
C1_UniqueUrls ==
    \A i, j \in 1..Len(Articles) : Articles[i].url = Articles[j].url => i = j

\* A run has just ingested a batch holding one url twice, and an article is stored.
C1_Witness ==
    /\ last.op = "succeeded"
    /\ \E i, j \in 1..Len(last.batch) : i # j /\ last.batch[i].url = last.batch[j].url
    /\ Len(Articles) >= 1

\* C2: at most one execution of runScrapeTask is between setting the running
\* flag and clearing it, and the flag is set exactly while one is.
C2_AtMostOneRun ==
    /\ Cardinality(runs) <= 1
    /\ scheduler.isRunning <=> runs # {}

\* A timer fired while a run was suspended in its fetch, and was skipped.
C2_Witness ==
    /\ last.op = "skip"
    /\ last.origin = "timer"
    /\ \E r \in runs : r.at = "fetch"

\* C3: a trigger that arrives while a scrape is in progress appends one warn
\* entry and changes nothing else: no article, not the running flag, no timer,
\* no new execution; and an execution only ever starts in a trigger step taken
\* while the flag is false, so nothing starts when the run in progress ends.
C3_SkippedNotQueued ==
    [][/\ (TriggerStep /\ scheduler.isRunning) =>
            /\ Len(Appended) = 1
            /\ Appended[1].level = "warn"
            /\ SubSeq(storage'.logs, 1, Len(Logs)) = Logs
            /\ storage'.articles = Articles
            /\ scheduler' = scheduler
            /\ timers' = timers
            /\ runs' = runs
       /\ (\E q \in runs' : \A r \in runs : r.id # q.id) =>
            /\ ~scheduler.isRunning
            /\ last'.op = "enter"
            /\ \A r \in runs : ~Exits(r)]_vars

\* POST /api/refresh arrived while a run was suspended reading the body, was
\* skipped and answered.
C3_Witness ==
    /\ last.op = "skip"
    /\ last.origin = "manual"
    /\ last.response = 200
    /\ \E r \in runs : r.at = "text"
    /\ Logs[Len(Logs)].level = "warn"

Min(a, b) == IF a < b THEN a ELSE b

\* C4: after deleteOldArticles(k) on a store of priorCount articles exactly
\* min(k, priorCount) remain, and they are the most recent by scrapedAt, for
\* every priorCount, those above the default listing limit of 50 included.
C4_TrimKeepsMostRecent ==
    phase = "trimmed" =>
        LET prior == last.articlesAtEntry
        IN  /\ Len(Articles) = Min(last.keepCount, Len(prior))
            /\ Ids(Articles) \subseteq Ids(prior)
            /\ \A i \in 1..Len(Articles), j \in 1..Len(prior) :
                  prior[j].id \notin Ids(Articles) =>
                      Articles[i].scrapedAt >= prior[j].scrapedAt

\* C5: after the ingest step of a scrape cycle, whether or not it found new
\* articles, at most 200 log entries are stored.
C5_LogCap ==
    phase \in {"ingested", "reingested"} => Len(Logs) <= LogKeepCount

\* C6: ingesting a batch a second time, right after the first, leaves the
\* number of stored articles as the first ingest left it.
C6_IngestTwiceSameCount ==
    phase = "reingested" => Len(Articles) = Len(last.articlesAfterFirst)

\* C7: every execution that passed the guard ends with the running flag false;
\* when it failed, an error entry carrying the failure's message is appended,
\* and the caller goes on as after a success: POST /api/refresh answers 200,
\* start() goes on to install the timer.
C7_RunEndsIdle ==
    [][\A r \in runs : Exits(r) =>
          /\ ~scheduler'.isRunning
          /\ last'.op \in {"failed", "succeeded"}
          /\ last'.op = "failed" =>
                \E i \in 1..Len(Appended) :
                    /\ Appended[i].level = "error"
                    /\ Appended[i].message = Msg("Scraping task failed: %s", last'.err)
          /\ r.origin = "manual" => last'.response = 200
          /\ r.origin = "start" => phase' = "serving" /\ scheduler'.currentTask # 0]_vars

\* A run started by POST /api/refresh failed on a response that is not 2xx,
\* and the flag is false.
C7_Witness ==
    /\ last.op = "failed"
    /\ last.origin = "manual"
    /\ last.err = HttpError(404)
    /\ ~scheduler.isRunning

\* The fetch of the run that ended in the last callback failed: it was
\* rejected, or answered with a status outside 200..299, or the body broke.
FetchFailure(obs) ==
    \/ obs.op = "failed"
    \/ obs.status # 0 /\ (obs.status < 200 \/ obs.status > 299)

\* C8: a run whose fetch fails leaves the stored articles as they were when
\* the run began, and an error entry logged during the run is in the log.
C8_FailedRunKeepsArticles ==
    [][\A r \in runs : (Exits(r) /\ FetchFailure(last')) =>
          /\ storage'.articles = r.articlesAtEntry
          /\ \E i \in (r.logsAtEntry + 1)..Len(storage'.logs) :
                storage'.logs[i].level = "error"]_vars

\* A timer-driven run failed in transport while articles were stored.
C8_Witness ==
    /\ last.op = "failed"
    /\ last.origin = "timer"
    /\ last.err = FetchFailed
    /\ Len(Articles) >= 1
    /\ Articles = last.articlesAtEntry

\* The interval the schedule is to use for a value of the setting: its
\* integer value, 15 when it has none.
ClaimedInterval(value) ==
    IF parseInt(value).nan THEN Num(DefaultInterval) ELSE parseInt(value)

\* The last callback computed the schedule.
Rescheduled ==
    \/ last.op = "settings" /\ last.key = "updateInterval"
    \/ last.origin = "start" /\ last.op \in {"failed", "succeeded"}

\* C9: whenever the schedule is computed, a new timer is installed, and its
\* interval is the integer value of updateInterval, or 15 when the value has no
\* integer value.
C9_IntervalOrDefault ==
    Rescheduled =>
        /\ scheduler.currentTask # 0
        /\ scheduler.currentTask # last.prevTask
        /\ timers[scheduler.currentTask] =
              [interval |-> ClaimedInterval(getSetting(storage, "updateInterval")),
               active |-> TRUE]

\* C10: a settings update of updateInterval to v leaves the handle on a new,
\* active timer with interval v, the previous timer stopped, and an info entry
\* recording the new interval appended; an update of another key leaves the
\* handle and the timers as they were.
C10_SettingsUpdateReschedules ==
    [][(ops' = ops + 1 /\ last'.op = "settings") =>
          IF last'.key = "updateInterval"
          THEN /\ scheduler'.currentTask # 0
               /\ scheduler'.currentTask # scheduler.currentTask
               /\ timers'[scheduler'.currentTask] =
                     [interval |-> ClaimedInterval(last'.value), active |-> TRUE]
               /\ scheduler.currentTask # 0 => ~timers'[scheduler.currentTask].active
               /\ \E i \in 1..Len(Appended) :
                     /\ Appended[i].level = "info"
                     /\ Appended[i].message =
                           Msg("Update interval changed to %s minutes", StrArg(last'.value))
          ELSE /\ scheduler'.currentTask = scheduler.currentTask
               /\ timers' = timers]_vars
\* C11: stop() cancels the timer the handle refers to and clears the handle;
\* a stop() when the handle is already null (after an earlier stop(), or before
\* any timer was installed) changes nothing; stop() never throws, touches
\* nothing but the timer and the handle, and applying it twice is applying it once.
C11_StopIdempotent ==
    [][(ops' = ops + 1 /\ last'.op = "stop") =>
          LET after == [storage |-> storage', scheduler |-> scheduler',
                        timers |-> timers', now |-> now', threw |-> FALSE]
          IN  /\ scheduler'.currentTask = 0
              /\ scheduler.currentTask # 0 =>
                    /\ ~timers'[scheduler.currentTask].active
                    /\ Len(timers') = Len(timers)
                    /\ \A t \in 1..Len(timers) :
                          t # scheduler.currentTask => timers'[t] = timers[t]
              /\ scheduler.currentTask = 0 => timers' = timers /\ scheduler' = scheduler
              /\ scheduler'.isRunning = scheduler.isRunning
              /\ storage' = storage /\ runs' = runs /\ phase' = phase
              /\ ~stop(after).threw
              /\ stop(after) = after]_vars

\* stop() was called with the handle already null, after the timer that
\* start() installed had been cancelled by an earlier stop().
C11_Witness ==
    /\ last.op = "stop"
    /\ last.prevTask = 0
    /\ phase = "serving"
    /\ Len(timers) = 1
    /\ ~timers[1].active
    /\ scheduler.currentTask = 0

\* stop() was called before start(): no timer was ever installed.
C11_WitnessNoTimer ==
    /\ last.op = "stop"
    /\ phase = "constructed"
    /\ timers = <<>>

\* The position of the first log entry with one of the given texts, 0 if none.
FirstEntry(texts) ==
    IF \E i \in 1..Len(Logs) : Logs[i].message.text \in texts
    THEN CHOOSE i \in 1..Len(Logs) :
            /\ Logs[i].message.text \in texts
            /\ \A j \in 1..(i - 1) : Logs[j].message.text \notin texts
    ELSE 0

RunEndTexts ==
    {"Scraping completed successfully. Found %d articles", "Scraping task failed: %s"}

\* C12: start() logs its startup entry first, then runs the initial scrape to
\* its end while no timer exists and the handle is null, then installs the
\* timer and logs it, then logs "started"; while start() has not finished no
\* timer exists, so no timer-driven run can exist, and start() never fails.
C12_StartOrder ==
    /\ phase \in {"constructed", "starting", "serving"}
    /\ phase = "constructed" => Logs = <<>> /\ timers = <<>> /\ runs = {}
    /\ phase = "starting" =>
          /\ timers = <<>>
          /\ scheduler.currentTask = 0
          /\ scheduler.isRunning
          /\ Cardinality(runs) = 1 /\ \A r \in runs : r.origin = "start"
          /\ Len(Logs) >= 2
          /\ Logs[1].message.text = "RSS Feed Scheduler starting..."
          /\ Logs[2].message.text = "Starting news scraping task..."
          /\ FirstEntry(RunEndTexts) = 0
          /\ FirstEntry({"Scheduled scraping every %d minutes"}) = 0
          /\ FirstEntry({"RSS Feed Scheduler started successfully"}) = 0
    /\ phase = "serving" =>
          /\ Len(timers) >= 1
          /\ \A r \in runs : r.origin # "start"
          /\ Logs[1].message.text = "RSS Feed Scheduler starting..."
          /\ Logs[2].message.text = "Starting news scraping task..."
          /\ FirstEntry(RunEndTexts) > 2
          /\ FirstEntry({"Scheduled scraping every %d minutes"}) = FirstEntry(RunEndTexts) + 1
          /\ FirstEntry({"RSS Feed Scheduler started successfully"}) = FirstEntry(RunEndTexts) + 2
          /\ \A i \in 1..FirstEntry(RunEndTexts) :
                Logs[i].message.text # "Scrape task already running, skipping..."

\* start() has just finished after an initial scrape that stored articles:
\* the first timer is installed and no callback has been delivered yet.
C12_Witness ==
    /\ phase = "serving"
    /\ last.origin = "start"
    /\ last.op = "succeeded"
    /\ Len(Articles) >= 1
    /\ scheduler.currentTask = 1
    /\ timers[1].active
    /\ ~scheduler.isRunning

\* The schedule was recomputed after the run r began and before this step.
RescheduledDuring(r) ==
    \E i \in (r.logsAtEntry + 1)..Len(Logs) :
        Logs[i].message.text = "Scheduled scraping every %d minutes"

\* C13: a reschedule (POST /api/settings with key updateInterval) that arrives
\* while a scrape is in progress returns in its own step, leaves the running
\* flag, the suspended run and the articles as they are and changes only the
\* timers and the handle; and a run during which the schedule was recomputed
\* ends as any other: when its page arrives it ingests the candidates (a
\* candidate is stored afterwards, and a change of the articles is logged) and
\* appends its final entry, and the flag is cleared.
C13_RescheduleKeepsRun ==
    [][/\ (ops' = ops + 1 /\ last'.op = "settings" /\ last'.key = "updateInterval"
             /\ scheduler.isRunning) =>
            /\ last'.response \in {200, 500}
            /\ scheduler'.isRunning
            /\ runs' = runs
            /\ storage'.articles = Articles
            /\ scheduler.currentTask # 0 => ~timers'[scheduler.currentTask].active
       /\ \A r \in runs : (Exits(r) /\ r.origin # "start" /\ RescheduledDuring(r)) =>
            /\ ~scheduler'.isRunning
            /\ scheduler'.currentTask = scheduler.currentTask
            /\ timers' = timers
            /\ last'.op = "succeeded" =>
                  /\ last'.batch # <<>> =>
                        \E i \in 1..Len(last'.batch) :
                            getArticleByUrl(storage', last'.batch[i].url)
                  /\ storage'.articles # Articles =>
                        \E i \in 1..Len(Appended) :
                            Appended[i].message.text = "Added %d new articles to database"
                  /\ Appended[Len(Appended)].message.text =
                        "Scraping completed successfully. Found %d articles"]_vars

\* A run started by POST /api/refresh has ingested a page with candidates, and
\* the schedule was recomputed, on a new active timer, while it was suspended.
C13_Witness ==
    /\ last.op = "succeeded"
    /\ last.origin = "manual"
    /\ Len(last.batch) >= 2
    /\ \E i \in (last.logsAtEntry + 1)..Len(Logs) :
          Logs[i].message.text = "Scheduled scraping every %d minutes"
    /\ scheduler.currentTask = 2
    /\ timers[2].active /\ ~timers[1].active
    /\ ~scheduler.isRunning

\* C14: when every fetch eventually returns or fails, a run that has set the
\* running flag eventually clears it; a failed run leaves the timers and the
\* handle as they were (after the initial scrape of start() the timer is then
\* installed); and a timer firing that follows a failed run is not skipped:
\* it starts a new execution.
C14_RunsEndTimerSurvives ==
    /\ scheduler.isRunning ~> ~scheduler.isRunning
    /\ [][\A r \in runs : (Exits(r) /\ last'.op = "failed") =>
              /\ ~scheduler'.isRunning
              /\ r.origin # "start" =>
                    timers' = timers /\ scheduler'.currentTask = scheduler.currentTask
              /\ r.origin = "start" =>
                    scheduler'.currentTask # 0 /\ timers'[scheduler'.currentTask].active]_vars
    /\ [][(last.op = "failed" /\ TriggerStep /\ last'.origin = "timer") =>
              /\ last'.op = "enter"
              /\ scheduler'.isRunning
              /\ \E q \in runs' : q.id = last'.run /\ q.origin = "timer" /\ q.at = "fetch"]_vars

\* A timer-driven run failed, the timer fired again, and that firing started
\* an execution that is now suspended in its fetch.
C14_Witness ==
    /\ last.op = "enter"
    /\ last.origin = "timer"
    /\ \E r \in runs : r.origin = "timer" /\ r.at = "fetch"
    /\ \E i \in 1..Len(Logs) :
          /\ Logs[i].message.text = "Scraping task failed: %s"
          /\ \E j \in 1..(i - 1) : Logs[j].message.text = "RSS Feed Scheduler started successfully"
    /\ timers[scheduler.currentTask].active

\* C15: in every reachable state every stored article has a title of at most
\* 500 characters and an excerpt of at most 1000, whichever path produced it.
C15_StoredLengths ==
    \A i \in 1..Len(Articles) :
        /\ Articles[i].title.len <= TitleLimit
        /\ Articles[i].excerpt.len <= ExcerptLimit

\* Stored are an article of the structural path cut from a title of 600 and a
\* summary of 1200 characters, and one of the fallback path cut from a title
\* of 600.
C15_Witness ==
    /\ \E i \in 1..Len(Articles) :
          /\ Articles[i].category = "Umum"
          /\ Articles[i].title = Text(TitleLong.txt, TitleLimit)
          /\ Articles[i].excerpt = Text(SummaryLong.txt, ExcerptLimit)
    /\ \E i \in 1..Len(Articles) :
          /\ Articles[i].category = "Berita"
          /\ Articles[i].title = Text(TitleLong.txt, TitleLimit)

\* C16: in every reachable state every stored article has a title longer than
\* 10 characters, and so has every candidate a run extracted, on either path.
C16_NoShortTitles ==
    /\ \A i \in 1..Len(Articles) : Articles[i].title.len > MinTitleLength
    /\ \A i \in 1..Len(last.batch) : last.batch[i].title.len > MinTitleLength

\* Pages with an element and with an anchor whose title has ten characters
\* have been ingested, one on each path, and their other candidates stored.
C16_Witness ==
    /\ last.op = "succeeded"
    /\ last.doc = DocFallback
    /\ \E n \in 1..Len(last.doc.anchors) : last.doc.anchors[n].text.len = MinTitleLength
    /\ Len(last.batch) = 1
    /\ \E i \in 1..Len(Articles) : Articles[i].category = "Berita"
    /\ \E i \in 1..Len(Articles) : Articles[i].category = "Umum" /\ Articles[i].title = TitleB

\* C17: every run fetches the value the sourceUrl setting had when the run
\* started: the value last set, or the default listing page when it was never
\* changed.
C17_SourceUrlConsumed ==
    \A r \in runs : r.fetched = r.sourceUrlSetting

\* The ingest of the last step added an article: a url of its batch was not
\* stored before.
AddedNew ==
    \E i \in 1..Len(last.batch) :
        \A j \in 1..Len(last.articlesAtEntry) :
            last.articlesAtEntry[j].url # last.batch[i].url

\* C18: after an ingest that added at least one article, at most twice the
\* configured maxArticles articles are stored, and every article that was
\* evicted is no more recent than any article kept, for every prior store size.
C18_IngestTrimsToTwiceMax ==
    (phase = "ingested" /\ AddedNew) =>
        /\ Len(Articles) <= 2 * MaxArticlesOf(storage).val
        /\ \A i \in 1..Len(Articles), j \in 1..Len(last.articlesAtEntry) :
              last.articlesAtEntry[j].id \notin Ids(Articles) =>
                  Articles[i].scrapedAt >= last.articlesAtEntry[j].scrapedAt

\* The patterns of articleSelectors that match an element of the page.
Hits(doc) == {i \in 1..Len(doc.matches) : doc.matches[i] # <<>>}

\* The number of texts of the sequence that are longer than 10 characters.
LongTitles(titles) ==
    Cardinality({n \in 1..Len(titles) : titles[n].len > MinTitleLength})

\* C19: the candidates of a run come from one source.  When some pattern
\* matches, they are elements of the first matching pattern, one candidate
\* for each of its elements with a title longer than 10 and none from a later
\* pattern or an anchor, so none at all when the filter rejects them all.
\* When no pattern matches, they are the anchors with a text longer than 10.
C19_SingleSource ==
    last.op = "succeeded" =>
        LET doc == last.doc
            found == last.batch
        IN  IF Hits(doc) # {}
            THEN LET first == CHOOSE i \in Hits(doc) : \A j \in Hits(doc) : i <= j
                     elements == doc.matches[first]
                 IN  /\ \A k \in 1..Len(found) :
                           /\ found[k].category # "Berita"
                           /\ \E n \in 1..Len(elements) :
                                 /\ found[k].url = ResolveUrl(elements[n].href)
                                 /\ found[k].title.txt = ElementTitle(elements[n]).txt
                     /\ Len(found) =
                           LongTitles([n \in 1..Len(elements) |-> ElementTitle(elements[n])])
            ELSE /\ \A k \in 1..Len(found) :
                       /\ found[k].category = "Berita"
                       /\ \E n \in 1..Len(doc.anchors) :
                             /\ found[k].url = ResolveFallbackUrl(doc.anchors[n].href)
                             /\ found[k].title.txt = doc.anchors[n].text.txt
                 /\ Len(found) =
                       LongTitles([n \in 1..Len(doc.anchors) |-> doc.anchors[n].text])

\* A run read a page on which the first matching pattern is the second one
\* and its only element is rejected, while the fifth pattern and an anchor
\* would give candidates: the run found nothing.
C19_Witness ==
    /\ last.op = "succeeded"
    /\ last.doc = DocRejected
    /\ Hits(last.doc) = {2, 5}
    /\ last.doc.anchors # <<>>
    /\ last.batch = <<>>
    /\ Logs[Len(Logs)].message = Msg("Scraping completed successfully. Found %d articles",
                                      NumArg(Num(0)))

\* A run read a page on which two patterns match, and took the two elements
\* of the first one only.
C19_WitnessNotMerged ==
    /\ last.op = "succeeded"
    /\ last.doc = DocDup
    /\ Len(last.batch) = 2

\* C20: on the structural path an element with no link, or whose first link
\* has no href or an empty one, yields no candidate.
C20_NoLinkNoCandidate ==
    (last.op = "succeeded" /\ Hits(last.doc) # {}) =>
        LET first == CHOOSE i \in Hits(last.doc) : \A j \in Hits(last.doc) : i <= j
            elements == last.doc.matches[first]
        IN  \A n \in 1..Len(elements) :
                elements[n].href.kind \in {"none", "empty"} =>
                    \A k \in 1..Len(last.batch) :
                        last.batch[k].title.txt # ElementTitle(elements[n]).txt

\* C21: in every reachable state, whatever the interleaving of start(),
\* settings updates and stop(), every active timer is the one the handle
\* refers to, so at most one timer is active and none runs without a handle.
C21_ActiveTimerIsHandle ==
    \A t \in 1..Len(timers) : timers[t].active => scheduler.currentTask = t

\* The timers that are active after the step and were not before it.
Activated ==
    {t \in 1..Len(timers') : timers'[t].active /\ (t > Len(timers) \/ ~timers[t].active)}

\* C22: when stop() returns no timer is active, and a timer becomes active
\* only in a start() or updateSchedule() call invoked after the last stop(),
\* never in a call that was already suspended when stop() ran; so no timer
\* can fire after a stop() unless one of the two is invoked again.
C22_StopIsFinal ==
    [][/\ (ops' = ops + 1 /\ last'.op = "stop") =>
              \A t \in 1..Len(timers') : ~timers'[t].active
       /\ (Activated # {} /\ awaiting # <<>>) => ~Head(awaiting).stopped]_vars

\* The urls of the batch that was ingested, and the urls stored after its
\* first ingest.
BatchUrls == {last.batch[i].url : i \in 1..Len(last.batch)}
UrlsAfterFirst == {last.articlesAfterFirst[i].url : i \in 1..Len(last.articlesAfterFirst)}

\* C23 as stated: a second ingest of the batch just ingested leaves the
\* stored articles (ids, urls, scrapedAt values, order) as the first ingest
\* left them, for every maxArticles setting and every batch.
C23_ReingestIsNoop ==
    phase = "reingested" => Articles = last.articlesAfterFirst

\* C23 as amended: when every url of the batch is stored after the first
\* ingest, the second ingest inserts nothing, evicts nothing and leaves the
\* stored articles (ids, urls, scrapedAt values, order) unchanged.
C23_ReingestOfStoredIsNoop ==
    (phase = "reingested" /\ BatchUrls \subseteq UrlsAfterFirst) =>
        Articles = last.articlesAfterFirst

C23_Witness ==
    /\ phase = "reingested"
    /\ Len(last.batch) >= 2
    /\ BatchUrls \subseteq UrlsAfterFirst
    /\ \E u \in BatchUrls : \A i \in 1..Len(last.articlesAtEntry) :
          last.articlesAtEntry[i].url # u
    /\ Len(Articles) > 2 * MaxArticlesOf(storage).val

\* C24: whenever a status query runs, the articleCount it returns is the
\* number of articles the store holds at that moment.
C24_StatusCountsStore ==
    last.op = "status" => last.rssStatus.articleCount = Len(Articles)

====
